---- MODULE Spec2Model ----
(***************************************************************************)
(* Todolist: the Business Core (core.TheCore) over the Storage Accessor    *)
(* (storage.DatabaseAccessor) over one table of TodoItemModel rows.        *)
(*                                                                         *)
(* The table is a set of rows and an auto-increment counter.  Every gorm   *)
(* call the accessor makes is one operator on that pair, every accessor    *)
(* method and every core method is an operator composed of them exactly as *)
(* the Go code composes the calls, and every action of the specification   *)
(* is one whole call of a public method.                                   *)
(***************************************************************************)
EXTENDS Integers, Sequences, FiniteSets, TLC

VARIABLES db, exited, issued, marked, last, procs

vars == <<db, exited, issued, marked, last, procs>>

(***************************************************************************)
(* Bounds.                                                                 *)
(***************************************************************************)
MaxCreates == 3

\* rows created before two requests are handled at the same time
MaxSetup == 1

\* the longest list a mock accessor's Read is programmed to return
MaxRead == 2

Descriptions == {"", "a"}

\* ids a caller may pass: 0 and MaxCreates + 1 are never assigned to a row
Ids == 0 .. (MaxCreates + 1)

(***************************************************************************)
(* Values.                                                                 *)
(***************************************************************************)
TodoItem(id, description, completed) ==
    [ID |-> id, Description |-> description, Completed |-> completed]

TodoItemModel(id, description, completed) ==
    [ID |-> id, Description |-> description, Completed |-> completed]

\* Go's zero value TodoItem{} / TodoItemModel{}
ZeroItem == [ID |-> 0, Description |-> "", Completed |-> FALSE]

\* error values; Nil is Go's nil error
Nil == [kind |-> "nil", ID |-> 0]

TodoItemNotFoundError(id) == [kind |-> "TodoItemNotFoundError", ID |-> id]

ErrRecordNotFound == [kind |-> "gorm.ErrRecordNotFound", ID |-> 0]

ErrStorage == [kind |-> "storage failure", ID |-> 0]

\* the predicates the core hands to Read
WhereID(id) == [kind |-> "ID", ID |-> id, Completed |-> FALSE]

WhereCompleted(completed) == [kind |-> "Completed", ID |-> 0, Completed |-> completed]

\* variant: the completed predicate compares with != in place of ==
WhereNegated(where, todo) ==
    IF where.kind = "ID" THEN todo.ID = where.ID
    ELSE todo.Completed # where.Completed

Where(where, todo) ==
    IF where.kind = "ID" THEN todo.ID = where.ID
    ELSE todo.Completed = where.Completed

(***************************************************************************)
(* The table: the gorm calls of storage/database.go.                       *)
(***************************************************************************)
RowsWithID(d, id) == {r \in d.rows : r.ID = id}

RowIDs(d) == {r.ID : r \in d.rows}

RECURSIVE ByPrimaryKey(_)
\* the rows of a set in primary-key order (the table's scan order)
ByPrimaryKey(rows) ==
    IF rows = {} THEN <<>>
    ELSE LET r == CHOOSE x \in rows : \A y \in rows : x.ID <= y.ID
         IN <<r>> \o ByPrimaryKey(rows \ {r})

\* variant: the new row's key is one more than the largest key in the table
GormCreateAfterLargest(d, model, fault) ==
    IF fault THEN [db |-> d, Error |-> ErrStorage]
    ELSE LET largest == IF d.rows = {} THEN 0
                        ELSE CHOOSE i \in RowIDs(d) : \A j \in RowIDs(d) : j <= i
         IN [db |-> [rows |-> d.rows \cup {[model EXCEPT !.ID = largest + 1]},
                     autoInc |-> d.autoInc + 1],
             Error |-> Nil]

\* db.Create(&model): INSERT; a model whose ID is 0 gets the next
\* auto-increment value, which is never given out again
GormCreate(d, model, fault) ==
    IF fault THEN [db |-> d, Error |-> ErrStorage]
    ELSE [db |-> [rows |-> d.rows \cup {[model EXCEPT !.ID = d.autoInc]},
                  autoInc |-> d.autoInc + 1],
          Error |-> Nil]

\* variant: db.First in place of db.Last, the row with the smallest key
GormLastAsFirst(d) ==
    IF d.rows = {} THEN ZeroItem
    ELSE CHOOSE r \in d.rows : \A s \in d.rows : r.ID <= s.ID

\* db.Last(&model): the row with the largest primary key; the model keeps
\* its zero value when the table is empty
GormLast(d) ==
    IF d.rows = {} THEN ZeroItem
    ELSE CHOOSE r \in d.rows : \A s \in d.rows : s.ID <= r.ID

\* db.Find(&models): all rows
GormFind(d) == ByPrimaryKey(d.rows)

\* db.First(&model, id): the row with that primary key, or ErrRecordNotFound
GormFirst(d, id, fault) ==
    IF fault THEN [model |-> ZeroItem, Error |-> ErrStorage]
    ELSE IF RowsWithID(d, id) = {}
         THEN [model |-> ZeroItem, Error |-> ErrRecordNotFound]
         ELSE [model |-> CHOOSE r \in RowsWithID(d, id) : TRUE, Error |-> Nil]

\* variant: the save always inserts a row and leaves the old one in place
GormSaveInserting(d, model) ==
    [d EXCEPT !.rows = d.rows \cup {model}]

\* db.Save(&model): writes all fields of the row with model's primary key,
\* inserting the row when no such row exists
GormSave(d, model) ==
    [d EXCEPT !.rows = {r \in d.rows : r.ID # model.ID} \cup {model}]

\* variant: the DELETE matches no row
GormDeleteNothing(d, model) == d

\* variant: the DELETE has no condition on the primary key
GormDeleteAll(d, model) == [d EXCEPT !.rows = {}]

\* db.Delete(&model): removes the row with model's primary key
GormDelete(d, model) ==
    [d EXCEPT !.rows = {r \in d.rows : r.ID # model.ID}]

(***************************************************************************)
(* storage.DatabaseAccessor.  Each method returns the table it leaves      *)
(* behind together with its Go results; gorm lists the gorm calls it has   *)
(* made on the table, in order.                                            *)
(***************************************************************************)
\* Create(todo *core.TodoItem) (id int, e error); todo is the caller's item
Create(d, todo, fault) ==
    LET result == GormCreate(d, TodoItemModel(0, todo.Description, FALSE), fault)
        todoModel == GormLast(result.db)
    IN IF result.Error # Nil
       THEN [db |-> result.db, todo |-> todo, id |-> 0, e |-> result.Error,
             gorm |-> <<"Create">>]
       ELSE [db |-> result.db, todo |-> [todo EXCEPT !.ID = todoModel.ID],
             id |-> todoModel.ID, e |-> Nil, gorm |-> <<"Create", "Last">>]

\* the gorm calls Read makes: db.Find, whose error it does not look at
ReadGorm == <<"Find">>

\* variant: the filter is not applied, every row is returned
ReadWithoutFilter(d, where) == GormFind(d)

\* Read(where func(core.TodoItem) bool) []core.TodoItem
Read(d, where) ==
    SelectSeq(GormFind(d),
              LAMBDA todoModel :
                  Where(where, TodoItem(todoModel.ID, todoModel.Description,
                                        todoModel.Completed)))

\* variant: the db.Save call is missing
UpdateWithoutSave(d, todo, fault) ==
    LET result == GormFirst(d, todo.ID, fault)
    IN IF result.Error # Nil
       THEN [db |-> d, e |-> result.Error, gorm |-> <<"First">>]
       ELSE [db |-> d, e |-> Nil, gorm |-> <<"First">>]

\* variant: todoModel.Description is not assigned
UpdateKeepingDescription(d, todo, fault) ==
    LET result == GormFirst(d, todo.ID, fault)
        todoModel == [result.model EXCEPT !.Completed = todo.Completed]
    IN IF result.Error # Nil
       THEN [db |-> d, e |-> result.Error, gorm |-> <<"First">>]
       ELSE [db |-> GormSave(d, todoModel), e |-> Nil,
             gorm |-> <<"First", "Save">>]

\* variant: the lookup's error is not checked, the row is saved all the same
UpdateIgnoringLookupError(d, todo, fault) ==
    LET result == GormFirst(d, todo.ID, fault)
        todoModel == [result.model EXCEPT !.ID = todo.ID,
                                          !.Description = todo.Description,
                                          !.Completed = todo.Completed]
    IN [db |-> GormSave(d, todoModel), e |-> Nil, gorm |-> <<"First", "Save">>]

\* Update(todo core.TodoItem) error
Update(d, todo, fault) ==
    LET result == GormFirst(d, todo.ID, fault)
        todoModel == [result.model EXCEPT !.Description = todo.Description,
                                          !.Completed = todo.Completed]
    IN IF result.Error # Nil
       THEN [db |-> d, e |-> result.Error, gorm |-> <<"First">>]
       ELSE [db |-> GormSave(d, todoModel), e |-> Nil,
             gorm |-> <<"First", "Save">>]

\* variant: the lookup's error is not returned
DeleteIgnoringError(d, id, fault) ==
    LET result == GormFirst(d, id, fault)
    IN IF result.Error # Nil
       THEN [db |-> d, e |-> Nil, gorm |-> <<"First">>]
       ELSE [db |-> GormDelete(d, result.model), e |-> Nil,
             gorm |-> <<"First", "Delete">>]

\* Delete(id int) error
Delete(d, id, fault) ==
    LET result == GormFirst(d, id, fault)
    IN IF result.Error # Nil
       THEN [db |-> d, e |-> result.Error, gorm |-> <<"First">>]
       ELSE [db |-> GormDelete(d, result.model), e |-> Nil,
             gorm |-> <<"First", "Delete">>]

(***************************************************************************)
(* core.TheCore.  fatal is log.Fatal: the process exits and the caller     *)
(* gets nothing back.  calls lists the accessor methods called, in order.  *)
(***************************************************************************)
\* variant: the accessor's error is not checked, the item is returned
CreateItemIgnoringError(d, description, fault) ==
    LET todo == TodoItem(0, description, FALSE)
        r == Create(d, todo, fault)
    IN [db |-> r.db, fatal |-> FALSE, todo |-> r.todo, err |-> Nil,
        calls |-> <<"Create">>]

\* CreateItem(description string) TodoItem
CreateItem(d, description, fault) ==
    LET todo == TodoItem(0, description, FALSE)
        r == Create(d, todo, fault)
    IN IF r.e # Nil
       THEN [db |-> r.db, fatal |-> TRUE, todo |-> ZeroItem, err |-> r.e,
             calls |-> <<"Create">>]
       ELSE [db |-> r.db, fatal |-> FALSE, todo |-> r.todo, err |-> Nil,
             calls |-> <<"Create">>]

\* variant: the len(todos) == 0 check is missing, the update is attempted
\* with the zero-value item carrying the id
UpdateItemWithoutEmptyCheck(d, id, completed, fault) ==
    LET todos == Read(d, WhereID(id))
    IN IF Len(todos) > 1
       THEN [db |-> d, fatal |-> TRUE, todo |-> ZeroItem, err |-> Nil,
             calls |-> <<"Read">>]
       ELSE LET found == IF Len(todos) = 0 THEN TodoItem(id, "", FALSE)
                         ELSE todos[1]
                todo == [found EXCEPT !.Completed = completed]
                r == Update(d, todo, fault)
            IN IF r.e # Nil
               THEN [db |-> r.db, fatal |-> FALSE, todo |-> ZeroItem,
                     err |-> r.e, calls |-> <<"Read", "Update">>]
               ELSE [db |-> r.db, fatal |-> FALSE, todo |-> todo,
                     err |-> Nil, calls |-> <<"Read", "Update">>]

\* variant: todo.Completed = completed is missing
UpdateItemKeepingCompleted(d, id, completed, fault) ==
    LET todos == Read(d, WhereID(id))
    IN IF Len(todos) = 0
       THEN [db |-> d, fatal |-> FALSE, todo |-> ZeroItem,
             err |-> TodoItemNotFoundError(id), calls |-> <<"Read">>]
       ELSE IF Len(todos) > 1
       THEN [db |-> d, fatal |-> TRUE, todo |-> ZeroItem, err |-> Nil,
             calls |-> <<"Read">>]
       ELSE LET todo == todos[1]
                r == Update(d, todo, fault)
            IN IF r.e # Nil
               THEN [db |-> r.db, fatal |-> FALSE, todo |-> ZeroItem,
                     err |-> r.e, calls |-> <<"Read", "Update">>]
               ELSE [db |-> r.db, fatal |-> FALSE, todo |-> todo,
                     err |-> Nil, calls |-> <<"Read", "Update">>]

\* variant: on an error of accessor.Update the modified item is returned
\* with the error, and the error is replaced by a TodoItemNotFoundError
UpdateItemReturningItem(d, id, completed, fault) ==
    LET todos == Read(d, WhereID(id))
    IN IF Len(todos) = 0
       THEN [db |-> d, fatal |-> FALSE, todo |-> ZeroItem,
             err |-> TodoItemNotFoundError(id), calls |-> <<"Read">>]
       ELSE IF Len(todos) > 1
       THEN [db |-> d, fatal |-> TRUE, todo |-> ZeroItem, err |-> Nil,
             calls |-> <<"Read">>]
       ELSE LET todo == [todos[1] EXCEPT !.Completed = completed]
                r == Update(d, todo, fault)
            IN IF r.e # Nil
               THEN [db |-> r.db, fatal |-> FALSE, todo |-> todo,
                     err |-> TodoItemNotFoundError(id),
                     calls |-> <<"Read", "Update">>]
               ELSE [db |-> r.db, fatal |-> FALSE, todo |-> todo,
                     err |-> Nil, calls |-> <<"Read", "Update">>]

\* UpdateItem(id int, completed bool) (TodoItem, error)
UpdateItem(d, id, completed, fault) ==
    LET todos == Read(d, WhereID(id))
    IN IF Len(todos) = 0
       THEN [db |-> d, fatal |-> FALSE, todo |-> ZeroItem,
             err |-> TodoItemNotFoundError(id), calls |-> <<"Read">>]
       ELSE IF Len(todos) > 1
       THEN [db |-> d, fatal |-> TRUE, todo |-> ZeroItem, err |-> Nil,
             calls |-> <<"Read">>]
       ELSE LET todo == [todos[1] EXCEPT !.Completed = completed]
                r == Update(d, todo, fault)
            IN IF r.e # Nil
               THEN [db |-> r.db, fatal |-> FALSE, todo |-> ZeroItem,
                     err |-> r.e, calls |-> <<"Read", "Update">>]
               ELSE [db |-> r.db, fatal |-> FALSE, todo |-> todo,
                     err |-> Nil, calls |-> <<"Read", "Update">>]

\* variant: every error of the accessor is turned into a
\* TodoItemNotFoundError for the id
DeleteItemAsNotFound(d, id, fault) ==
    LET r == Delete(d, id, fault)
    IN IF r.e # Nil
       THEN [db |-> r.db, err |-> TodoItemNotFoundError(id), calls |-> <<"Delete">>]
       ELSE [db |-> r.db, err |-> Nil, calls |-> <<"Delete">>]

\* DeleteItem(id int) error
DeleteItem(d, id, fault) ==
    LET r == Delete(d, id, fault)
    IN IF r.e # Nil
       THEN [db |-> r.db, err |-> r.e, calls |-> <<"Delete">>]
       ELSE [db |-> r.db, err |-> Nil, calls |-> <<"Delete">>]

\* GetItems(completed bool) []TodoItem
GetItems(d, completed) ==
    [todos |-> Read(d, WhereCompleted(completed)), calls |-> <<"Read">>]

(***************************************************************************)
(* The endpoint package: the HTTP handlers over the core.  A request is    *)
(* its parameters, form = [id, description, completed]: the {id} of the    *)
(* route and the two form values, "" for a form value that is not sent.    *)
(* A response is its status, the name and value of the flag of an update   *)
(* or delete answer with its error message, and the items of a create or   *)
(* list answer.                                                            *)
(***************************************************************************)
\* strconv.ParseBool
ParseBool(str) ==
    IF str \in {"1", "t", "T", "TRUE", "true", "True"}
    THEN [value |-> TRUE, err |-> FALSE]
    ELSE IF str \in {"0", "f", "F", "FALSE", "false", "False"}
    THEN [value |-> FALSE, err |-> FALSE]
    ELSE [value |-> FALSE, err |-> TRUE]

\* strconv.Atoi on the decimal numerals of the ids; anything else is an
\* error, with value 0
Atoi(str) ==
    IF \E i \in Ids : ToString(i) = str
    THEN [value |-> CHOOSE i \in Ids : ToString(i) = str, err |-> FALSE]
    ELSE [value |-> 0, err |-> TRUE]

\* err.Error(), in pieces
ErrorString(err) ==
    IF err.kind = "TodoItemNotFoundError"
    THEN <<"TodoItem with id ", ToString(err.ID), " not found">>
    ELSE IF err.kind = "gorm.ErrRecordNotFound" THEN <<"record not found">>
    ELSE <<err.kind>>

\* the status of a response whose handler writes the body without calling
\* WriteHeader
StatusOK == 200

\* the name of a core call in a handler's list of calls
GetItemsCall(completed) ==
    IF completed THEN "GetItems(true)" ELSE "GetItems(false)"

\* CreateItem(writer, request)
EndpointCreateItem(d, form, fault) ==
    LET r == CreateItem(d, form.description, fault)
    IN [db |-> r.db, fatal |-> r.fatal, id |-> 0, completed |-> FALSE,
        err |-> r.err, todos |-> <<>>, calls |-> <<"CreateItem">>,
        resp |-> [status |-> StatusOK, key |-> "", flag |-> FALSE,
                  error |-> <<>>, items |-> <<r.todo>>]]

\* variant: the answer says updated: true whatever the core returned
EndpointUpdateItemAlwaysTrue(d, form, fault) ==
    LET id == Atoi(form.id).value
        completed == ParseBool(form.completed).value
        r == UpdateItem(d, id, completed, fault)
    IN [db |-> r.db, fatal |-> r.fatal, id |-> id, completed |-> completed,
        err |-> r.err, todos |-> <<>>, calls |-> <<"UpdateItem">>,
        resp |-> [status |-> StatusOK, key |-> "updated", flag |-> TRUE,
                  error |-> <<>>, items |-> <<>>]]

\* variant: a completed parameter that does not parse counts as true
EndpointUpdateItemDefaultTrue(d, form, fault) ==
    LET id == Atoi(form.id).value
        parsed == ParseBool(form.completed)
        completed == IF parsed.err THEN TRUE ELSE parsed.value
        r == UpdateItem(d, id, completed, fault)
    IN [db |-> r.db, fatal |-> r.fatal, id |-> id, completed |-> completed,
        err |-> r.err, todos |-> <<>>, calls |-> <<"UpdateItem">>,
        resp |-> IF r.err # Nil
                 THEN [status |-> StatusOK, key |-> "updated", flag |-> FALSE,
                       error |-> ErrorString(r.err), items |-> <<>>]
                 ELSE [status |-> StatusOK, key |-> "updated", flag |-> TRUE,
                       error |-> <<>>, items |-> <<>>]]

\* UpdateItem(writer, request)
EndpointUpdateItem(d, form, fault) ==
    LET id == Atoi(form.id).value
        completed == ParseBool(form.completed).value
        r == UpdateItem(d, id, completed, fault)
    IN [db |-> r.db, fatal |-> r.fatal, id |-> id, completed |-> completed,
        err |-> r.err, todos |-> <<>>, calls |-> <<"UpdateItem">>,
        resp |-> IF r.err # Nil
                 THEN [status |-> StatusOK, key |-> "updated", flag |-> FALSE,
                       error |-> ErrorString(r.err), items |-> <<>>]
                 ELSE [status |-> StatusOK, key |-> "updated", flag |-> TRUE,
                       error |-> <<>>, items |-> <<>>]]

\* DeleteItem(writer, request)
EndpointDeleteItem(d, form, fault) ==
    LET id == Atoi(form.id).value
        r == DeleteItem(d, id, fault)
    IN [db |-> r.db, fatal |-> FALSE, id |-> id, completed |-> FALSE,
        err |-> r.err, todos |-> <<>>, calls |-> <<"DeleteItem">>,
        resp |-> IF r.err # Nil
                 THEN [status |-> StatusOK, key |-> "deleted", flag |-> FALSE,
                       error |-> ErrorString(r.err), items |-> <<>>]
                 ELSE [status |-> StatusOK, key |-> "deleted", flag |-> TRUE,
                       error |-> <<>>, items |-> <<>>]]

\* variant: without the parameter the zero value of completed is used
EndpointGetItemsDefaultFalse(d, form) ==
    LET parsed == ParseBool(form.completed)
        completed == parsed.value
        todos == GetItems(d, completed).todos
    IN [db |-> d, fatal |-> FALSE, id |-> 0, completed |-> completed,
        err |-> Nil, todos |-> todos, calls |-> <<GetItemsCall(completed)>>,
        resp |-> [status |-> StatusOK, key |-> "", flag |-> FALSE,
                  error |-> <<>>, items |-> todos]]

\* variant: the parameter is not looked at, all items are returned
EndpointGetItemsAlwaysAll(d, form) ==
    LET parsed == ParseBool(form.completed)
        completed == parsed.value
        todos == GetItems(d, TRUE).todos \o GetItems(d, FALSE).todos
    IN [db |-> d, fatal |-> FALSE, id |-> 0, completed |-> completed,
        err |-> Nil, todos |-> todos,
        calls |-> <<GetItemsCall(TRUE), GetItemsCall(FALSE)>>,
        resp |-> [status |-> StatusOK, key |-> "", flag |-> FALSE,
                  error |-> <<>>, items |-> todos]]

\* variant: without the parameter the two core calls are made in the other
\* order, GetItems(false) first
EndpointGetItemsFalseFirst(d, form) ==
    LET parsed == ParseBool(form.completed)
        completed == parsed.value
        unspecified == parsed.err
        todos == IF unspecified
                 THEN GetItems(d, FALSE).todos \o GetItems(d, TRUE).todos
                 ELSE GetItems(d, completed).todos
    IN [db |-> d, fatal |-> FALSE, id |-> 0, completed |-> completed,
        err |-> Nil, todos |-> todos,
        calls |-> IF unspecified
                  THEN <<GetItemsCall(FALSE), GetItemsCall(TRUE)>>
                  ELSE <<GetItemsCall(completed)>>,
        resp |-> [status |-> StatusOK, key |-> "", flag |-> FALSE,
                  error |-> <<>>, items |-> todos]]

\* GetItems(writer, request)
EndpointGetItems(d, form) ==
    LET parsed == ParseBool(form.completed)
        completed == parsed.value
        unspecified == parsed.err
        todos == IF unspecified
                 THEN GetItems(d, TRUE).todos \o GetItems(d, FALSE).todos
                 ELSE GetItems(d, completed).todos
    IN [db |-> d, fatal |-> FALSE, id |-> 0, completed |-> completed,
        err |-> Nil, todos |-> todos,
        calls |-> IF unspecified
                  THEN <<GetItemsCall(TRUE), GetItemsCall(FALSE)>>
                  ELSE <<GetItemsCall(completed)>>,
        resp |-> [status |-> StatusOK, key |-> "", flag |-> FALSE,
                  error |-> <<>>, items |-> todos]]

(***************************************************************************)
(* State.                                                                  *)
(*   db      the table: its rows and its auto-increment counter            *)
(*   exited  the process has been ended by log.Fatal                       *)
(*   issued  history: the ids Create has returned so far                   *)
(*   marked  history: the ids i for which UpdateItem(i, true) returned     *)
(*           without error and no call on i has come since, other than     *)
(*           calls that returned an error and so changed nothing           *)
(*   last    the call that led to this state: its arguments, its results,  *)
(*           the rows and histories it started from, and of the call       *)
(*           before it: the id it deleted (prevDeleted, a DeleteItem that  *)
(*           returned nil) and the description it created on an empty      *)
(*           table (prevCreated, a CreateItem); fault: the store failed    *)
(*           the call's checked gorm call; returned: the call came back to *)
(*           its caller; gorm: the gorm calls an accessor method made;     *)
(*           form and resp: a handler's request parameters and response;   *)
(*           mockUpdate and mockError: the items a mock accessor's Update  *)
(*           was called with and the error it was programmed to return     *)
(*   procs   the two requests that are handled at the same time, each a    *)
(*           core call in progress: where it is (pc), its arguments, its   *)
(*           local variables and results, the rows it started from (pre),  *)
(*           whether the other call was in progress at some moment of it   *)
(*           (overlap), whether it made the latest db.Save (wroteLast),    *)
(*           and, of an UpdateItem, whether the other call deleted the row *)
(*           after its Read found it and before its db.Save (removed)      *)
(***************************************************************************)
NoId == 0 - 1

NoForm == [id |-> "", description |-> "", completed |-> ""]

NoResponse == [status |-> 0, key |-> "", flag |-> FALSE, error |-> <<>>,
               items |-> <<>>]

Call(op, id, description, completed, todo, retId, err, todos, calls) ==
    [op |-> op, id |-> id, description |-> description, completed |-> completed,
     todo |-> todo, retId |-> retId, err |-> err, todos |-> todos,
     calls |-> calls,
     pre |-> db.rows, preAutoInc |-> db.autoInc,
     preIssued |-> issued, preMarked |-> marked,
     prevDeleted |-> IF last.op = "DeleteItem" /\ last.err = Nil
                     THEN last.id ELSE NoId,
     prevCreated |-> IF last.op = "CreateItem" /\ last.pre = {}
                     THEN <<last.description>> ELSE <<>>,
     fault |-> FALSE, returned |-> TRUE, gorm |-> <<>>,
     form |-> NoForm, resp |-> NoResponse,
     mockUpdate |-> <<>>, mockError |-> Nil]

Procs == {1, 2}

IdleProc ==
    [pc |-> "idle", op |-> "", id |-> 0, description |-> "", completed |-> FALSE,
     pre |-> {}, todos |-> <<>>, todo |-> ZeroItem, model |-> ZeroItem,
     err |-> Nil, ret |-> ZeroItem, overlap |-> FALSE, wroteLast |-> FALSE,
     removed |-> FALSE]

Init ==
    /\ procs = [p \in Procs |-> IdleProc]
    /\ db = [rows |-> {}, autoInc |-> 1]
    /\ exited = FALSE
    /\ issued = {}
    /\ marked = {}
    /\ last = [op |-> "NewCore", id |-> 0, description |-> "", completed |-> FALSE,
               todo |-> ZeroItem, retId |-> 0, err |-> Nil, todos |-> <<>>,
               calls |-> <<>>,
               pre |-> {}, preAutoInc |-> 1,
               preIssued |-> {}, preMarked |-> {},
               prevDeleted |-> NoId, prevCreated |-> <<>>,
               fault |-> FALSE, returned |-> TRUE, gorm |-> <<>>,
               form |-> NoForm, resp |-> NoResponse,
               mockUpdate |-> <<>>, mockError |-> Nil]

(***************************************************************************)
(* Actions: one whole call of a core method ...                            *)
(***************************************************************************)
CallCreateItem(description, fault) ==
    /\ ~exited
    /\ db.autoInc <= MaxCreates
    /\ LET r == CreateItem(db, description, fault)
       IN /\ db' = r.db
          /\ exited' = r.fatal
          /\ issued' = IF r.fatal THEN issued ELSE issued \cup {r.todo.ID}
          /\ marked' = marked
          /\ procs' = procs
          /\ last' = [Call("CreateItem", 0, description, FALSE, r.todo,
                           r.todo.ID, r.err, <<>>, r.calls)
                         EXCEPT !.fault = fault, !.returned = ~r.fatal]

CallUpdateItem(id, completed, fault) ==
    /\ ~exited
    /\ LET r == UpdateItem(db, id, completed, fault)
       IN /\ db' = r.db
          /\ exited' = r.fatal
          /\ issued' = issued
          /\ procs' = procs
          /\ marked' = IF r.fatal \/ r.err # Nil THEN marked
                       ELSE IF completed THEN marked \cup {id}
                       ELSE marked \ {id}
          /\ last' = [Call("UpdateItem", id, "", completed, r.todo, 0, r.err,
                           <<>>, r.calls)
                         EXCEPT !.fault = fault, !.returned = ~r.fatal]

CallDeleteItem(id, fault) ==
    /\ ~exited
    /\ LET r == DeleteItem(db, id, fault)
       IN /\ db' = r.db
          /\ marked' = IF r.err # Nil THEN marked ELSE marked \ {id}
          /\ last' = [Call("DeleteItem", id, "", FALSE, ZeroItem, 0, r.err,
                           <<>>, r.calls)
                         EXCEPT !.fault = fault]
    /\ UNCHANGED <<exited, issued, procs>>

CallGetItems(completed) ==
    /\ ~exited
    /\ LET r == GetItems(db, completed)
       IN last' = Call("GetItems", 0, "", completed, ZeroItem, 0, Nil,
                       r.todos, r.calls)
    /\ UNCHANGED <<db, exited, issued, marked, procs>>

(***************************************************************************)
(* ... or of an accessor method, called directly as storage's tests do.    *)
(***************************************************************************)
CallCreate(todo, fault) ==
    /\ ~exited
    /\ db.autoInc <= MaxCreates
    /\ LET r == Create(db, todo, fault)
       IN /\ db' = r.db
          /\ issued' = IF r.e = Nil THEN issued \cup {r.id} ELSE issued
          /\ last' = [Call("Create", todo.ID, todo.Description, todo.Completed,
                           r.todo, r.id, r.e, <<>>, <<>>)
                         EXCEPT !.fault = fault, !.gorm = r.gorm]
    /\ UNCHANGED <<exited, marked, procs>>

CallUpdate(todo, fault) ==
    /\ ~exited
    /\ LET r == Update(db, todo, fault)
       IN /\ db' = r.db
          /\ marked' = marked \ {todo.ID}
          /\ last' = [Call("Update", todo.ID, todo.Description, todo.Completed,
                           todo, 0, r.e, <<>>, <<>>)
                         EXCEPT !.fault = fault, !.gorm = r.gorm]
    /\ UNCHANGED <<exited, issued, procs>>

CallDelete(id, fault) ==
    /\ ~exited
    /\ LET r == Delete(db, id, fault)
       IN /\ db' = r.db
          /\ marked' = marked \ {id}
          /\ last' = [Call("Delete", id, "", FALSE, ZeroItem, 0, r.e, <<>>, <<>>)
                         EXCEPT !.fault = fault, !.gorm = r.gorm]
    /\ UNCHANGED <<exited, issued, procs>>

\* variant: Read takes the rows it returns out of the table
CallReadConsuming(where) ==
    /\ ~exited
    /\ db' = [db EXCEPT !.rows = {r \in db.rows : ~Where(where, r)}]
    /\ last' = [Call("Read", where.ID, where.kind, where.Completed, ZeroItem, 0,
                      Nil, Read(db, where), <<>>)
                 EXCEPT !.gorm = ReadGorm]
    /\ UNCHANGED <<exited, issued, marked, procs>>

\* Read called with one of the core's two kinds of predicate
CallRead(where) ==
    /\ ~exited
    /\ last' = [Call("Read", where.ID, where.kind, where.Completed, ZeroItem, 0,
                      Nil, Read(db, where), <<>>)
                 EXCEPT !.gorm = ReadGorm]
    /\ UNCHANGED <<db, exited, issued, marked, procs>>

\* the predicates a caller may hand to Read
Predicates == {WhereID(id) : id \in Ids} \cup {WhereCompleted(c) : c \in BOOLEAN}

\* the items a caller may hand to the accessor's Update
TodoItems == [ID : Ids, Description : Descriptions, Completed : BOOLEAN]

\* the items a caller may hand to the accessor's Create: the ID it carries
\* on entry is 0 (as the core builds it) or a stale one
NewItems == [ID : {0, MaxCreates + 1}, Description : Descriptions,
             Completed : BOOLEAN]

(***************************************************************************)
(* Spec: calls of the core's methods, one after the other, on a backing    *)
(* store that answers.                                                     *)
(***************************************************************************)
Next ==
    \/ \E description \in Descriptions : CallCreateItem(description, FALSE)
    \/ \E id \in Ids, completed \in BOOLEAN : CallUpdateItem(id, completed, FALSE)
    \/ \E id \in Ids : CallDeleteItem(id, FALSE)
    \/ \E completed \in BOOLEAN : CallGetItems(completed)

Spec == Init /\ [][Next]_vars

(***************************************************************************)
(* SpecAccessor: calls of the accessor's methods, one after the other, as  *)
(* storage's tests make them, and of DeleteItem, which hands its id to     *)
(* Delete and Delete's error back.                                         *)
(***************************************************************************)
NextAccessor ==
    \/ \E todo \in NewItems : CallCreate(todo, FALSE)
    \/ \E where \in Predicates : CallRead(where)
    \/ \E todo \in TodoItems : CallUpdate(todo, FALSE)
    \/ \E id \in Ids : CallDelete(id, FALSE)
    \/ \E id \in Ids : CallDeleteItem(id, FALSE)

SpecAccessor == Init /\ [][NextAccessor]_vars

(***************************************************************************)
(* SpecEndpoint: requests to the four handlers, one after the other, on a  *)
(* backing store that answers.                                             *)
(***************************************************************************)
\* one request handled by handler op with result r
Handle(op, form, r) ==
    /\ ~exited
    /\ db' = r.db
    /\ exited' = r.fatal
    /\ procs' = procs
    /\ last' = [Call(op, r.id, form.description, r.completed, ZeroItem, 0,
                      r.err, r.todos, r.calls)
                 EXCEPT !.form = form, !.resp = r.resp, !.returned = ~r.fatal]

HandleCreateItem(form) ==
    /\ db.autoInc <= MaxCreates
    /\ LET r == EndpointCreateItem(db, form, FALSE)
       IN /\ Handle("endpoint.CreateItem", form, r)
          /\ issued' = IF r.fatal THEN issued
                       ELSE issued \cup {r.resp.items[1].ID}
          /\ marked' = marked

HandleUpdateItem(form) ==
    LET r == EndpointUpdateItem(db, form, FALSE)
    IN /\ Handle("endpoint.UpdateItem", form, r)
       /\ issued' = issued
       /\ marked' = IF r.fatal \/ r.err # Nil THEN marked
                    ELSE IF r.completed THEN marked \cup {r.id}
                    ELSE marked \ {r.id}

HandleDeleteItem(form) ==
    LET r == EndpointDeleteItem(db, form, FALSE)
    IN /\ Handle("endpoint.DeleteItem", form, r)
       /\ issued' = issued
       /\ marked' = IF r.err # Nil THEN marked ELSE marked \ {r.id}

HandleGetItems(form) ==
    LET r == EndpointGetItems(db, form)
    IN /\ Handle("endpoint.GetItems", form, r)
       /\ UNCHANGED <<issued, marked>>

\* the {id} of a route: the numeral of an id that may be stored or of one
\* that never is, or no numeral
IdStrings == {ToString(i) : i \in 1 .. (MaxCreates + 1)} \cup {"abc"}

\* the completed parameter: not sent, two values ParseBool takes and one it
\* does not
CompletedStrings == {"", "true", "false", "yes"}

NextEndpoint ==
    \/ \E description \in Descriptions :
          HandleCreateItem([id |-> "", description |-> description,
                            completed |-> ""])
    \/ \E id \in IdStrings, completed \in CompletedStrings :
          HandleUpdateItem([id |-> id, description |-> "",
                            completed |-> completed])
    \/ \E id \in IdStrings :
          HandleDeleteItem([id |-> id, description |-> "", completed |-> ""])
    \/ \E completed \in CompletedStrings :
          HandleGetItems([id |-> "", description |-> "",
                          completed |-> completed])

SpecEndpoint == Init /\ [][NextEndpoint]_vars

(***************************************************************************)
(* SpecRead: calls of the core's methods and of the accessor's Read, one   *)
(* after the other, on a backing store that answers.                       *)
(***************************************************************************)
NextRead ==
    \/ \E description \in Descriptions : CallCreateItem(description, FALSE)
    \/ \E id \in Ids, completed \in BOOLEAN : CallUpdateItem(id, completed, FALSE)
    \/ \E id \in Ids : CallDeleteItem(id, FALSE)
    \/ \E completed \in BOOLEAN : CallGetItems(completed)
    \/ \E where \in Predicates : CallRead(where)

SpecRead == Init /\ [][NextRead]_vars

(***************************************************************************)
(* SpecFault: calls of the core's writing methods, one after the other, on *)
(* a backing store that may fail the gorm call whose error the accessor    *)
(* checks (db.Create in Create, db.First in Update and Delete).            *)
(***************************************************************************)
NextFault ==
    \/ \E description \in Descriptions, fault \in BOOLEAN :
          CallCreateItem(description, fault)
    \/ \E id \in Ids, completed \in BOOLEAN, fault \in BOOLEAN :
          CallUpdateItem(id, completed, fault)
    \/ \E id \in Ids, fault \in BOOLEAN : CallDeleteItem(id, fault)

SpecFault == Init /\ [][NextFault]_vars

(***************************************************************************)
(* SpecConcurrent: a sequence of core calls, one after the other, and then *)
(* two requests handled at the same time, each a core call made by its own *)
(* goroutine.  Nothing in the core or the accessor locks, and no           *)
(* transaction spans two gorm calls, so a call in progress takes one step  *)
(* per gorm call and the steps of the two calls interleave in any order.   *)
(***************************************************************************)
InProgress(p) == procs[p].pc \notin {"idle", "done"}

\* the calls before the two requests: whole calls, while no request has come
SetupCreateItem(description) ==
    /\ ~exited
    /\ \A p \in Procs : procs[p].pc = "idle"
    /\ db.autoInc <= MaxSetup
    /\ db' = CreateItem(db, description, FALSE).db
    /\ UNCHANGED <<exited, issued, marked, last, procs>>

SetupUpdateItem(id, completed) ==
    /\ ~exited
    /\ \A p \in Procs : procs[p].pc = "idle"
    /\ db' = UpdateItem(db, id, completed, FALSE).db
    /\ UNCHANGED <<exited, issued, marked, last, procs>>

SetupDeleteItem(id) ==
    /\ ~exited
    /\ \A p \in Procs : procs[p].pc = "idle"
    /\ db' = DeleteItem(db, id, FALSE).db
    /\ UNCHANGED <<exited, issued, marked, last, procs>>

\* the first step of each core method, and of the list handler when the
\* request has no completed parameter
FirstPc(op) ==
    IF op = "CreateItem" THEN "Create.Create"
    ELSE IF op = "UpdateItem" THEN "Update.Read"
    ELSE IF op = "DeleteItem" THEN "Delete.First"
    ELSE IF op = "endpoint.GetItems" THEN "List.True"
    ELSE "GetItems.Read"

\* a request arrives and its handler calls the core method
Begin(p, op, id, description, completed) ==
    /\ ~exited
    /\ procs[p].pc = "idle"
    /\ procs' = [q \in Procs |->
                   IF q = p
                   THEN [IdleProc EXCEPT !.pc = FirstPc(op), !.op = op,
                                         !.id = id,
                                         !.description = description,
                                         !.completed = completed,
                                         !.pre = db.rows,
                                         !.overlap = \E o \in Procs \ {p} :
                                                        InProgress(o)]
                   ELSE IF InProgress(q)
                   THEN [procs[q] EXCEPT !.overlap = TRUE]
                   ELSE procs[q]]
    /\ UNCHANGED <<db, exited, issued, marked, last>>

\* p moves on; the other call stays where it is
Goto(p, proc) == procs' = [procs EXCEPT ![p] = proc]

\* CreateItem, Create: db.Create
StepCreateCreate(p) ==
    /\ ~exited
    /\ procs[p].pc = "Create.Create"
    /\ LET result == GormCreate(db, TodoItemModel(0, procs[p].description, FALSE),
                                FALSE)
       IN /\ db' = result.db
          /\ exited' = (result.Error # Nil)
          /\ Goto(p, [procs[p] EXCEPT
                        !.pc = IF result.Error # Nil THEN "done" ELSE "Create.Last",
                        !.err = result.Error])
    /\ UNCHANGED <<issued, marked, last>>

\* CreateItem, Create: db.Last, todo.ID = todoModel.ID, return todo
StepCreateLast(p) ==
    /\ ~exited
    /\ procs[p].pc = "Create.Last"
    /\ LET todoModel == GormLast(db)
       IN Goto(p, [procs[p] EXCEPT
                     !.pc = "done",
                     !.model = todoModel,
                     !.ret = TodoItem(todoModel.ID, procs[p].description, FALSE)])
    /\ UNCHANGED <<db, exited, issued, marked, last>>

\* UpdateItem: accessor.Read by id and the two checks of len(todos)
StepUpdateRead(p) ==
    /\ ~exited
    /\ procs[p].pc = "Update.Read"
    /\ LET todos == Read(db, WhereID(procs[p].id))
       IN IF Len(todos) = 0
          THEN /\ Goto(p, [procs[p] EXCEPT
                             !.pc = "done",
                             !.err = TodoItemNotFoundError(procs[p].id)])
               /\ exited' = exited
          ELSE IF Len(todos) > 1
          THEN /\ Goto(p, [procs[p] EXCEPT !.pc = "done", !.todos = todos])
               /\ exited' = TRUE
          ELSE /\ Goto(p, [procs[p] EXCEPT
                             !.pc = "Update.First",
                             !.todos = todos,
                             !.todo = [todos[1] EXCEPT
                                         !.Completed = procs[p].completed]])
               /\ exited' = exited
    /\ UNCHANGED <<db, issued, marked, last>>

\* variant: todoModel.Completed is not assigned
StepUpdateFirstKeepingCompleted(p) ==
    /\ ~exited
    /\ procs[p].pc = "Update.First"
    /\ LET result == GormFirst(db, procs[p].todo.ID, FALSE)
       IN IF result.Error # Nil
          THEN Goto(p, [procs[p] EXCEPT !.pc = "done", !.err = result.Error])
          ELSE Goto(p, [procs[p] EXCEPT
                          !.pc = "Update.Save",
                          !.model = [result.model EXCEPT
                                       !.Description = procs[p].todo.Description]])
    /\ UNCHANGED <<db, exited, issued, marked, last>>

\* UpdateItem, Update: db.First and the assignments to todoModel
StepUpdateFirst(p) ==
    /\ ~exited
    /\ procs[p].pc = "Update.First"
    /\ LET result == GormFirst(db, procs[p].todo.ID, FALSE)
       IN IF result.Error # Nil
          THEN Goto(p, [procs[p] EXCEPT !.pc = "done", !.err = result.Error])
          ELSE Goto(p, [procs[p] EXCEPT
                          !.pc = "Update.Save",
                          !.model = [result.model EXCEPT
                                       !.Description = procs[p].todo.Description,
                                       !.Completed = procs[p].todo.Completed]])
    /\ UNCHANGED <<db, exited, issued, marked, last>>

\* UpdateItem, Update: db.Save, return todo
StepUpdateSave(p) ==
    /\ ~exited
    /\ procs[p].pc = "Update.Save"
    /\ db' = GormSave(db, procs[p].model)
    /\ procs' = [q \in Procs |->
                   IF q = p
                   THEN [procs[p] EXCEPT !.pc = "done", !.ret = procs[p].todo,
                                         !.wroteLast = TRUE]
                   ELSE [procs[q] EXCEPT !.wroteLast = FALSE]]
    /\ UNCHANGED <<exited, issued, marked, last>>

\* DeleteItem, Delete: db.First
StepDeleteFirst(p) ==
    /\ ~exited
    /\ procs[p].pc = "Delete.First"
    /\ LET result == GormFirst(db, procs[p].id, FALSE)
       IN IF result.Error # Nil
          THEN Goto(p, [procs[p] EXCEPT !.pc = "done", !.err = result.Error])
          ELSE Goto(p, [procs[p] EXCEPT !.pc = "Delete.Delete",
                                        !.model = result.model])
    /\ UNCHANGED <<db, exited, issued, marked, last>>

\* DeleteItem, Delete: db.Delete, return nil
StepDeleteDelete(p) ==
    /\ ~exited
    /\ procs[p].pc = "Delete.Delete"
    /\ db' = GormDelete(db, procs[p].model)
    /\ procs' = [q \in Procs |->
                   IF q = p THEN [procs[p] EXCEPT !.pc = "done"]
                   ELSE IF /\ procs[q].pc \in {"Update.First", "Update.Save"}
                           /\ procs[q].id = procs[p].model.ID
                   THEN [procs[q] EXCEPT !.removed = TRUE]
                   ELSE procs[q]]
    /\ UNCHANGED <<exited, issued, marked, last>>

\* GetItems: accessor.Read by completed
StepGetItemsRead(p) ==
    /\ ~exited
    /\ procs[p].pc = "GetItems.Read"
    /\ Goto(p, [procs[p] EXCEPT
                  !.pc = "done",
                  !.todos = Read(db, WhereCompleted(procs[p].completed))])
    /\ UNCHANGED <<db, exited, issued, marked, last>>

\* endpoint.GetItems without the parameter: todos = theCore.GetItems(true)
StepListTrue(p) ==
    /\ ~exited
    /\ procs[p].pc = "List.True"
    /\ Goto(p, [procs[p] EXCEPT !.pc = "List.False",
                                !.todos = GetItems(db, TRUE).todos])
    /\ UNCHANGED <<db, exited, issued, marked, last>>

\* endpoint.GetItems without the parameter:
\* todos = append(todos, theCore.GetItems(false)...), then the response
StepListFalse(p) ==
    /\ ~exited
    /\ procs[p].pc = "List.False"
    /\ Goto(p, [procs[p] EXCEPT
                  !.pc = "done",
                  !.todos = procs[p].todos \o GetItems(db, FALSE).todos])
    /\ UNCHANGED <<db, exited, issued, marked, last>>

\* ids a request may name: those a row may have when it comes, and one more
SetupIds == 1 .. (MaxSetup + 1)

NextConcurrent ==
    \/ \E description \in Descriptions : SetupCreateItem(description)
    \/ \E id \in SetupIds, completed \in BOOLEAN : SetupUpdateItem(id, completed)
    \/ \E id \in SetupIds : SetupDeleteItem(id)
    \/ \E p \in Procs, description \in Descriptions :
          Begin(p, "CreateItem", 0, description, FALSE)
    \/ \E p \in Procs, id \in SetupIds, completed \in BOOLEAN :
          Begin(p, "UpdateItem", id, "", completed)
    \/ \E p \in Procs, id \in SetupIds : Begin(p, "DeleteItem", id, "", FALSE)
    \/ \E p \in Procs, completed \in BOOLEAN :
          Begin(p, "GetItems", 0, "", completed)
    \/ \E p \in Procs : StepCreateCreate(p)
    \/ \E p \in Procs : StepCreateLast(p)
    \/ \E p \in Procs : StepUpdateRead(p)
    \/ \E p \in Procs : StepUpdateFirst(p)
    \/ \E p \in Procs : StepUpdateSave(p)
    \/ \E p \in Procs : StepDeleteFirst(p)
    \/ \E p \in Procs : StepDeleteDelete(p)
    \/ \E p \in Procs : StepGetItemsRead(p)
    \/ \E p \in Procs : Begin(p, "endpoint.GetItems", 0, "", FALSE)
    \/ \E p \in Procs : StepListTrue(p)
    \/ \E p \in Procs : StepListFalse(p)

SpecConcurrent == Init /\ [][NextConcurrent]_vars

(***************************************************************************)
(* SpecMock: TheCore built over a mock StorageAccessor, NewCore(mock), as  *)
(* in core_test.go.  The mock keeps no rows: its Read returns the list it  *)
(* has been programmed with, whatever the predicate, and its Update        *)
(* returns the error it has been programmed with.  This is the one setting *)
(* in which Read hands UpdateItem more than one item: the table of the     *)
(* DatabaseAccessor has ID as its primary key.                             *)
(***************************************************************************)
MockIds == 1 .. 2

MockItems ==
    {TodoItem(id, description, completed) :
        id \in MockIds, description \in Descriptions, completed \in BOOLEAN}

\* the lists Read may be programmed to return
MockReads == UNION {[1 .. n -> MockItems] : n \in 0 .. MaxRead}

\* the errors Update may be programmed to return
MockErrors == {Nil, ErrRecordNotFound, ErrStorage}

\* variant: the len(todos) > 1 check is missing, the first item is taken
MockUpdateItemTakingFirst(todos, e, id, completed) ==
    IF Len(todos) = 0
    THEN [fatal |-> FALSE, todo |-> ZeroItem,
          err |-> TodoItemNotFoundError(id), calls |-> <<"Read">>,
          updated |-> <<>>]
    ELSE LET todo == [todos[1] EXCEPT !.Completed = completed]
         IN IF e # Nil
            THEN [fatal |-> FALSE, todo |-> ZeroItem, err |-> e,
                  calls |-> <<"Read", "Update">>, updated |-> <<todo>>]
            ELSE [fatal |-> FALSE, todo |-> todo, err |-> Nil,
                  calls |-> <<"Read", "Update">>, updated |-> <<todo>>]

\* UpdateItem(id int, completed bool) (TodoItem, error) with c.accessor the
\* mock: todos is what its Read returns, e what its Update returns;
\* updated lists the items handed to Update
MockUpdateItem(todos, e, id, completed) ==
    IF Len(todos) = 0
    THEN [fatal |-> FALSE, todo |-> ZeroItem,
          err |-> TodoItemNotFoundError(id), calls |-> <<"Read">>,
          updated |-> <<>>]
    ELSE IF Len(todos) > 1
    THEN [fatal |-> TRUE, todo |-> ZeroItem, err |-> Nil,
          calls |-> <<"Read">>, updated |-> <<>>]
    ELSE LET todo == [todos[1] EXCEPT !.Completed = completed]
         IN IF e # Nil
            THEN [fatal |-> FALSE, todo |-> ZeroItem, err |-> e,
                  calls |-> <<"Read", "Update">>, updated |-> <<todo>>]
            ELSE [fatal |-> FALSE, todo |-> todo, err |-> Nil,
                  calls |-> <<"Read", "Update">>, updated |-> <<todo>>]

\* a call of UpdateItem on the core over the mock; last.todos is the list
\* the mock's Read returned and last.gorm stays empty: no gorm call is made
CallMockUpdateItem(todos, e, id, completed) ==
    /\ ~exited
    /\ LET r == MockUpdateItem(todos, e, id, completed)
       IN /\ exited' = r.fatal
          /\ last' = [Call("MockUpdateItem", id, "", completed, r.todo, 0,
                           r.err, todos, r.calls)
                         EXCEPT !.returned = ~r.fatal,
                                !.mockUpdate = r.updated,
                                !.mockError = e]
    /\ UNCHANGED <<db, issued, marked, procs>>

NextMock ==
    \E todos \in MockReads, e \in MockErrors, id \in MockIds,
       completed \in BOOLEAN :
        CallMockUpdateItem(todos, e, id, completed)

SpecMock == Init /\ [][NextMock]_vars

(***************************************************************************)
(* Properties.                                                             *)
(***************************************************************************)
\* the table the last call started from
PreDb == [rows |-> last.pre, autoInc |-> last.preAutoInc]

\* the rows the last call started from that carry the id it was given
PreRowsWithID == {r \in last.pre : r.ID = last.id}

\* the ids of the items the last call returned
ReturnedIDs == {last.todos[k].ID : k \in 1 .. Len(last.todos)}

\* the items the last call returned, as a set
ReturnedItems == {last.todos[k] : k \in 1 .. Len(last.todos)}

\* an error that says the record is not there
NotFoundClass(err) == err.kind \in {"TodoItemNotFoundError", "gorm.ErrRecordNotFound"}

\* C1: CreateItem(d), after any sequence of earlier calls, returns an item
\* that is not completed and whose id is non-negative and differs from every
\* id an earlier CreateItem returned, ids of rows deleted since included.
C1_CreateItemFreshId ==
    last.op = "CreateItem" =>
        /\ last.todo.Completed = FALSE
        /\ last.todo.Description = last.description
        /\ last.todo.ID >= 0
        /\ last.todo.ID \notin last.preIssued

\* a CreateItem after an earlier item, created last, has been deleted
C1_Witness ==
    /\ last.op = "CreateItem"
    /\ \E i \in last.preIssued :
          /\ \A r \in last.pre : r.ID # i
          /\ \A r \in last.pre : r.ID < i
    /\ last.pre # {}

\* C2: GetItems(c) returns exactly the stored items whose completed flag is
\* c, each once; with A, B, C stored and only B completed that is {B} for
\* true and {A, C} for false.
C2_GetItemsExact ==
    last.op = "GetItems" =>
        /\ ReturnedItems = {r \in db.rows : r.Completed = last.completed}
        /\ Len(last.todos) = Cardinality(ReturnedItems)

\* GetItems(true) with three items stored of which the second alone is
\* completed
C2_Witness ==
    /\ last.op = "GetItems"
    /\ last.completed
    /\ {<<r.ID, r.Completed>> : r \in db.rows} = {<<1, FALSE>>, <<2, TRUE>>, <<3, FALSE>>}
    /\ ReturnedIDs = {2}

\* C3: UpdateItem(id, c) for an id with no stored row returns
\* TodoItemNotFoundError{id} and the zero-value item, does not call the
\* accessor's Update, and leaves the rows as they were.
C3_UpdateItemNotFound ==
    (last.op = "UpdateItem" /\ PreRowsWithID = {}) =>
        /\ last.err = TodoItemNotFoundError(last.id)
        /\ last.todo = ZeroItem
        /\ \A k \in 1 .. Len(last.calls) : last.calls[k] # "Update"
        /\ db.rows = last.pre

\* UpdateItem on an id that is not in a non-empty table
C3_Witness ==
    /\ last.op = "UpdateItem"
    /\ PreRowsWithID = {}
    /\ last.pre # {}
    /\ last.id # 0

\* C4: when exactly one row has id i, UpdateItem(i, c) returns nil and the
\* item (i, the row's description, c); afterwards the row has completed = c,
\* the same description, and no other row has changed.
C4_UpdateItemOne ==
    (last.op = "UpdateItem" /\ Cardinality(PreRowsWithID) = 1) =>
        \A old \in PreRowsWithID :
            /\ last.err = Nil
            /\ last.todo = TodoItem(last.id, old.Description, last.completed)
            /\ db.rows = (last.pre \ {old}) \cup
                         {TodoItemModel(old.ID, old.Description, last.completed)}

\* UpdateItem flips the flag of one row of several, one with a description
C4_Witness ==
    /\ last.op = "UpdateItem"
    /\ Cardinality(last.pre) > 1
    /\ \E old \in PreRowsWithID :
          old.Completed # last.completed /\ old.Description # ""

\* C5: while UpdateItem(i, true) has returned nil and no call on i has come
\* since, GetItems(true) includes an item with id i and GetItems(false)
\* does not.
C5_MarkedThenListed ==
    last.op = "GetItems" =>
        \A i \in last.preMarked :
            /\ last.completed => i \in ReturnedIDs
            /\ ~last.completed => i \notin ReturnedIDs

\* GetItems(false) on a table with a marked item and an incomplete one
C5_Witness ==
    /\ last.op = "GetItems"
    /\ ~last.completed
    /\ last.preMarked # {}
    /\ last.todos # <<>>

\* C6: an UpdateItem(i, true) that follows a DeleteItem(i) that returned nil
\* returns TodoItemNotFoundError{i} and changes no row.
C6_UpdateAfterDelete ==
    (last.op = "UpdateItem" /\ last.completed /\ last.prevDeleted = last.id) =>
        /\ last.err = TodoItemNotFoundError(last.id)
        /\ db.rows = last.pre

\* UpdateItem(i, true) right after DeleteItem(i) removed i, others remaining
C6_Witness ==
    /\ last.op = "UpdateItem"
    /\ last.completed
    /\ last.prevDeleted = last.id
    /\ last.pre # {}

\* C7: DeleteItem(id) and the accessor's Delete(id), for an id with no
\* stored row, return a non-nil not-found error and leave the rows as they
\* were.
C7_DeleteNotFound ==
    (last.op \in {"DeleteItem", "Delete"} /\ PreRowsWithID = {}) =>
        /\ last.err # Nil
        /\ NotFoundClass(last.err)
        /\ db.rows = last.pre

\* Delete on an id that is not in a non-empty table
C7_Witness ==
    /\ last.op = "Delete"
    /\ PreRowsWithID = {}
    /\ last.pre # {}

\* C8: a Create(item) that returns nil has added exactly one row, with
\* item's description and completed = false whatever item.completed was,
\* has left the other rows alone, and returns the id of that row, which is
\* also the id now in the caller's item.
C8_CreateAddsOne ==
    (last.op = "Create" /\ last.err = Nil) =>
        \E r \in db.rows :
            /\ r \notin last.pre
            /\ \A q \in last.pre : q.ID # r.ID
            /\ db.rows = last.pre \cup {r}
            /\ r.Description = last.description
            /\ r.Completed = FALSE
            /\ last.retId = r.ID
            /\ last.todo.ID = r.ID
            /\ last.todo.Description = last.description
            /\ last.todo.Completed = last.completed

\* Create of an item that came in completed and with a stale id, into a
\* table that holds rows
C8_Witness ==
    /\ last.op = "Create"
    /\ last.err = Nil
    /\ last.completed
    /\ last.id # 0
    /\ last.pre # {}

\* C9: CreateItem(d) on an empty table followed by GetItems(false) yields
\* exactly one item, with description d and completed = false, for every d,
\* the empty string included.
C9_CreateThenList ==
    (last.op = "GetItems" /\ ~last.completed /\ last.prevCreated # <<>>) =>
        /\ Len(last.todos) = 1
        /\ last.todos[1].Description = last.prevCreated[1]
        /\ last.todos[1].Completed = FALSE

\* GetItems(false) right after CreateItem("") on an empty table
C9_Witness ==
    /\ last.op = "GetItems"
    /\ ~last.completed
    /\ last.prevCreated = <<"">>

\* C10: the accessor's Update(item) for an id that has a row returns nil and
\* overwrites that row's description and completed with item's; the row's
\* id and every other row stay as they were.
C10_UpdateOverwrites ==
    (last.op = "Update" /\ PreRowsWithID # {}) =>
        /\ last.err = Nil
        /\ db.rows = (last.pre \ PreRowsWithID) \cup
                     {TodoItemModel(last.id, last.description, last.completed)}

\* Update changes both the description and the flag of one row of several
C10_Witness ==
    /\ last.op = "Update"
    /\ Cardinality(last.pre) > 1
    /\ \E old \in PreRowsWithID :
          old.Description # last.description /\ old.Completed # last.completed


\* C11: the accessor's Update(item) for an id that has no row returns a
\* non-nil error, creates no row for that id and leaves the rows as they
\* were.
C11_UpdateNotFound ==
    (last.op = "Update" /\ PreRowsWithID = {}) =>
        /\ last.err # Nil
        /\ RowsWithID(db, last.id) = {}
        /\ db.rows = last.pre

\* Update with an id that is not in a non-empty table
C11_Witness ==
    /\ last.op = "Update"
    /\ PreRowsWithID = {}
    /\ last.pre # {}
    /\ last.id # 0
    /\ last.completed

\* C12: the accessor's Delete(id) for an id that has a row removes exactly
\* that row and returns nil; every other row stays as it was.
C12_DeleteRemovesOne ==
    (last.op = "Delete" /\ PreRowsWithID # {}) =>
        /\ last.err = Nil
        /\ db.rows = last.pre \ PreRowsWithID
        /\ Cardinality(db.rows) = Cardinality(last.pre) - 1

\* Delete of one row of several
C12_Witness ==
    /\ last.op = "Delete"
    /\ PreRowsWithID # {}
    /\ Cardinality(last.pre) > 1


\* the accessor's four methods
AccessorOps == {"Create", "Read", "Update", "Delete"}

\* C18 as stated: every accessor method touches the table exactly once per
\* call.
C18_OneTouchPerCall ==
    last.op \in AccessorOps => Len(last.gorm) = 1

\* C18: Read makes exactly one gorm call per call; Create, Update and Delete
\* make two when they return nil (insert then read back the last row, look
\* up then save, look up then delete) and one when their first gorm call
\* fails.
C18_TouchesPerCall ==
    last.op \in AccessorOps =>
        /\ last.op = "Read" => last.gorm = <<"Find">>
        /\ (last.op = "Create" /\ last.err = Nil) => last.gorm = <<"Create", "Last">>
        /\ (last.op = "Update" /\ last.err = Nil) => last.gorm = <<"First", "Save">>
        /\ (last.op = "Delete" /\ last.err = Nil) => last.gorm = <<"First", "Delete">>
        /\ (last.op # "Read" /\ last.err # Nil) => Len(last.gorm) = 1

\* an Update that found its row and saved it
C18_Witness ==
    /\ last.op = "Update"
    /\ last.err = Nil
    /\ PreRowsWithID # {}
    /\ Len(last.gorm) = 2


\* C13: DeleteItem(id) returns what the accessor's Delete(id) returns on the
\* same table, nil exactly when Delete returns nil and Delete's error
\* unchanged otherwise; it calls Delete once and makes no lookup of its own.
C13_DeleteItemDelegates ==
    last.op = "DeleteItem" =>
        LET r == Delete(PreDb, last.id, last.fault)
        IN /\ last.err = r.e
           /\ (last.err = Nil) <=> (r.e = Nil)
           /\ db = r.db
           /\ last.calls = <<"Delete">>

\* DeleteItem of a stored id while the store fails the lookup
C13_Witness ==
    /\ last.op = "DeleteItem"
    /\ last.fault
    /\ PreRowsWithID # {}
    /\ last.err = ErrStorage

\* C20: when the accessor's Create returns an error, CreateItem does not
\* return: the process is ended by log.Fatal, neither an item nor an error
\* reaches the caller, and no row has been added.
C20_CreateItemFatal ==
    (last.op = "CreateItem"
       /\ Create(PreDb, TodoItem(0, last.description, FALSE), last.fault).e # Nil) =>
        /\ exited
        /\ ~last.returned
        /\ db = PreDb

\* CreateItem while the store fails the insert, with rows in the table
C20_Witness ==
    /\ last.op = "CreateItem"
    /\ last.fault
    /\ last.pre # {}
    /\ exited


\* C14: after any sequence of CreateItem, UpdateItem and DeleteItem the
\* table holds at most one row per id, no call has changed the id of a row
\* that is still there (a row that was there before the call and is not the
\* one a DeleteItem removed is there after it under the same id with the
\* same description), and UpdateItem's read by id has never found more
\* than one row: the process has not been ended by that check.
C14_OneRowPerId ==
    /\ \A r, s \in db.rows : r.ID = s.ID => r = s
    /\ \A r \in last.pre :
          (last.op = "DeleteItem" /\ last.id = r.ID)
          \/ \E s \in db.rows : s.ID = r.ID /\ s.Description = r.Description
    /\ Len(Read(db, WhereID(last.id))) <= 1
    /\ ~exited

\* an UpdateItem has changed one of three rows and a CreateItem before it
\* came after a deletion
C14_Witness ==
    /\ last.op = "UpdateItem"
    /\ last.err = Nil
    /\ Cardinality(db.rows) = 2
    /\ db.autoInc = 4
    /\ \E r \in last.pre : r.ID = last.id /\ r.Completed # last.completed


\* the items of the last response, as a set
ResponseItems == {last.resp.items[k] : k \in 1 .. Len(last.resp.items)}

\* C15: a list request without a completed parameter answers with all
\* stored items, each exactly once: the result of GetItems(true) followed
\* by the result of GetItems(false), each called once.
C15_ListAll ==
    (last.op = "endpoint.GetItems" /\ last.form.completed = "") =>
        /\ last.resp.items = GetItems(PreDb, TRUE).todos \o GetItems(PreDb, FALSE).todos
        /\ ResponseItems = db.rows
        /\ Len(last.resp.items) = Cardinality(db.rows)
        /\ last.calls = <<"GetItems(true)", "GetItems(false)">>

\* a list request without the parameter on completed and incomplete items
C15_Witness ==
    /\ last.op = "endpoint.GetItems"
    /\ last.form.completed = ""
    /\ \E r, s \in db.rows : r.Completed /\ ~s.Completed
    /\ Cardinality(db.rows) = 3

\* the error the core call of the last update or delete request returns
CoreErr ==
    IF last.op = "endpoint.UpdateItem"
    THEN UpdateItem(PreDb, last.id, last.completed, last.fault).err
    ELSE DeleteItem(PreDb, last.id, last.fault).err

\* C16: the update and delete handlers answer with updated/deleted = true
\* exactly when the core call returned nil, and with false and the error's
\* message otherwise; the status is 200 either way.
C16_FlagIffNil ==
    last.op \in {"endpoint.UpdateItem", "endpoint.DeleteItem"} =>
        /\ last.resp.status = 200
        /\ last.resp.key = (IF last.op = "endpoint.UpdateItem"
                            THEN "updated" ELSE "deleted")
        /\ last.resp.flag <=> (CoreErr = Nil)
        /\ CoreErr = Nil => last.resp.error = <<>>
        /\ CoreErr # Nil => /\ last.resp.error = ErrorString(CoreErr)
                            /\ last.resp.error # <<>>

\* an update request for an id that is not stored, with rows in the table
C16_Witness ==
    /\ last.op = "endpoint.UpdateItem"
    /\ ~last.resp.flag
    /\ last.resp.error = <<"TodoItem with id ", "2", " not found">>
    /\ last.pre # {}

\* C17: a list request whose completed parameter parses as the boolean c
\* answers with the result of one GetItems(c) call, items whose completed
\* flag is c only, and makes no GetItems call for the other value.
C17_ListFiltered ==
    (last.op = "endpoint.GetItems" /\ ~ParseBool(last.form.completed).err) =>
        LET c == ParseBool(last.form.completed).value
        IN /\ last.resp.items = GetItems(PreDb, c).todos
           /\ \A item \in ResponseItems : item.Completed = c
           /\ ResponseItems = {r \in db.rows : r.Completed = c}
           /\ last.calls = <<GetItemsCall(c)>>

\* a list request with completed=false on completed and incomplete items
C17_Witness ==
    /\ last.op = "endpoint.GetItems"
    /\ last.form.completed = "false"
    /\ \E r, s \in db.rows : r.Completed /\ ~s.Completed
    /\ last.resp.items # <<>>


\* both requests are UpdateItem calls on id i, a row with id i was there
\* when each began, and both have returned
BothUpdated(i) ==
    \A p \in Procs :
        /\ procs[p].op = "UpdateItem"
        /\ procs[p].id = i
        /\ procs[p].pc = "done"
        /\ \E r \in procs[p].pre : r.ID = i

\* C19: after two UpdateItem calls on the same existing id, run at the same
\* time, have both finished, exactly one row has that id, its description
\* is the one it had before the calls (no core call changes a description,
\* so it is the one it was created with), and its completed flag is the
\* value asked for by the call whose db.Save came last.
C19_LastWriteWins ==
    \A i \in SetupIds :
        BothUpdated(i) =>
            /\ Cardinality(RowsWithID(db, i)) = 1
            /\ \A r \in RowsWithID(db, i) :
                  /\ \A p \in Procs : \A old \in procs[p].pre :
                        old.ID = i => r.Description = old.Description
                  /\ \E p \in Procs :
                        procs[p].wroteLast /\ r.Completed = procs[p].completed
            /\ \A p \in Procs : procs[p].err = Nil

\* two overlapping UpdateItem calls that ask for different values, where
\* the call that asked for false saved last
C19_Witness ==
    /\ \E i \in SetupIds : BothUpdated(i)
    /\ \A p \in Procs : procs[p].overlap
    /\ procs[1].completed /\ ~procs[2].completed
    /\ procs[2].wroteLast
    /\ \E r \in db.rows : r.Description = "a"


\* C21: when the accessor's Read hands UpdateItem more than one item, the
\* process is ended (log.Fatal): Update is not called, so no record is
\* changed, and the caller gets back neither an item nor an error.
C21_MultipleIsFatal ==
    (last.op = "MockUpdateItem" /\ Len(last.todos) > 1) =>
        /\ exited
        /\ ~last.returned
        /\ last.calls = <<"Read">>
        /\ last.mockUpdate = <<>>
        /\ last.todo = ZeroItem
        /\ last.err = Nil
        /\ db.rows = last.pre

\* Read returned two items that both carry the id asked for
C21_Witness ==
    /\ last.op = "MockUpdateItem"
    /\ Len(last.todos) = 2
    /\ \A k \in 1 .. 2 : last.todos[k].ID = last.id
    /\ last.todos[1] # last.todos[2]
    /\ exited


\* the error accessor.Update returns when UpdateItem hands it the one row
\* with the id, changed to the completed value asked for
UpdateError ==
    LET row == CHOOSE r \in PreRowsWithID : TRUE
    IN Update(PreDb, TodoItem(row.ID, row.Description, last.completed),
              last.fault).e

\* C22: when exactly one record has the id and accessor.Update returns an
\* error, UpdateItem returns that very error together with the zero-value
\* TodoItem, not the item it modified.
C22_UpdateErrorPassedOn ==
    (/\ last.op = "UpdateItem"
     /\ Cardinality(PreRowsWithID) = 1
     /\ UpdateError # Nil) =>
        /\ last.returned
        /\ last.err = UpdateError
        /\ last.todo = ZeroItem
        /\ last.calls = <<"Read", "Update">>

\* the store failed the lookup of an existing, incomplete row that was to
\* be marked completed
C22_Witness ==
    /\ last.op = "UpdateItem"
    /\ last.fault
    /\ last.completed
    /\ \E r \in PreRowsWithID : ~r.Completed /\ r.Description = "a"
    /\ last.err = ErrStorage
    /\ last.todo = ZeroItem


\* C23: in the answer to a list request without a completed parameter no
\* incomplete item comes before a completed one.
C23_CompletedFirst ==
    (last.op = "endpoint.GetItems" /\ last.form.completed = "") =>
        \A i, j \in 1 .. Len(last.resp.items) :
            (last.resp.items[i].Completed /\ ~last.resp.items[j].Completed)
                => i < j

\* the answer lists a completed item before an incomplete one that was
\* created earlier
C23_Witness ==
    /\ last.op = "endpoint.GetItems"
    /\ last.form.completed = ""
    /\ \E i, j \in 1 .. Len(last.resp.items) :
          /\ i < j
          /\ last.resp.items[i].Completed
          /\ ~last.resp.items[j].Completed
          /\ last.resp.items[i].ID > last.resp.items[j].ID


\* both requests are CreateItem calls and both have returned
BothCreated ==
    \A p \in Procs : procs[p].op = "CreateItem" /\ procs[p].pc = "done"

\* C24: two CreateItem calls that run at the same time return different
\* ids, and the description each returns is the description of the stored
\* row with the id it returns.
C24_OwnIdReturned ==
    BothCreated =>
        /\ procs[1].ret.ID # procs[2].ret.ID
        /\ \A p \in Procs :
              \E r \in db.rows : /\ r.ID = procs[p].ret.ID
                                 /\ r.Description = procs[p].ret.Description


\* the ids of the items a GetItems call made now returns, for either value
\* of completed
ListedIds ==
    UNION {{GetItems(db, c).todos[k].ID : k \in 1 .. Len(GetItems(db, c).todos)} :
              c \in BOOLEAN}

\* C25: once DeleteItem(i) has returned nil, GetItems returns no item with
\* id i from then on, whatever the other request does at the same time, an
\* UpdateItem(i, c) that overlaps the delete included.
C25_DeletedStaysDeleted ==
    \A p \in Procs :
        (/\ procs[p].op = "DeleteItem"
         /\ procs[p].pc = "done"
         /\ procs[p].err = Nil) => procs[p].id \notin ListedIds


\* how often the list todos has an item with the id
Occurrences(todos, id) == Cardinality({k \in 1 .. Len(todos) : todos[k].ID = id})

\* C26: a list request without a completed parameter that overlaps an
\* UpdateItem on item i answers with item i exactly once.  Item i is there
\* throughout: it was stored when the list request came and the only other
\* request is the UpdateItem, which deletes nothing.
C26_ListedOnce ==
    \A p \in Procs : \A q \in Procs \ {p} :
        (/\ procs[p].op = "endpoint.GetItems"
         /\ procs[p].pc = "done"
         /\ procs[p].overlap
         /\ procs[q].op = "UpdateItem"
         /\ \E r \in procs[p].pre : r.ID = procs[q].id)
            => Occurrences(procs[p].todos, procs[q].id) = 1


\* C27: an UpdateItem(i, c) whose row is deleted by the other request after
\* its Read found it and before its db.Save returns TodoItemNotFoundError
\* for i, as it does when the row is gone before the Read.
C27_RemovedIsNotFound ==
    \A p \in Procs :
        (/\ procs[p].op = "UpdateItem"
         /\ procs[p].pc = "done"
         /\ procs[p].removed) => procs[p].err = TodoItemNotFoundError(procs[p].id)


\* both requests are DeleteItem calls on id i, a row with id i was there
\* when each began, the two calls overlapped and both have returned
BothDeleted(i) ==
    \A p \in Procs :
        /\ procs[p].op = "DeleteItem"
        /\ procs[p].id = i
        /\ procs[p].pc = "done"
        /\ procs[p].overlap
        /\ \E r \in procs[p].pre : r.ID = i

\* C28: of two DeleteItem(i) calls on the same existing row that run at the
\* same time, one returns nil and the other a not-found error.
C28_OneDeleteWins ==
    \A i \in SetupIds :
        BothDeleted(i) =>
            \E p \in Procs : \E q \in Procs \ {p} :
                /\ procs[p].err = Nil
                /\ procs[q].err # Nil
                /\ NotFoundClass(procs[q].err)


\* C29: GetItems and the accessor's Read leave the table as it was: the
\* same rows, with the same ids, descriptions and completed flags, and the
\* same auto-increment counter.
C29_ReadsChangeNothing ==
    last.op \in {"GetItems", "Read"} =>
        /\ db.rows = last.pre
        /\ db.autoInc = last.preAutoInc
        /\ ~exited

\* a Read that returned some of the rows of the table but not all of them
C29_Witness ==
    /\ last.op = "Read"
    /\ Len(last.todos) >= 1
    /\ Len(last.todos) < Cardinality(db.rows)
    /\ \E r, s \in db.rows : r.Completed /\ ~s.Completed


\* what the update handler does with the last request when its completed
\* parameter is replaced by "false"
AsCompletedFalse ==
    EndpointUpdateItem(PreDb, [last.form EXCEPT !.completed = "false"], last.fault)

\* C30: an update request whose completed parameter is not sent or does not
\* parse as a boolean is handled as completed=false is: the core is called
\* with UpdateItem(id, false), the table and the response are those of the
\* completed=false request, and when a row has the id it is incomplete
\* afterwards and the response says updated: true.
C30_UnparsedIsFalse ==
    (last.op = "endpoint.UpdateItem" /\ ParseBool(last.form.completed).err) =>
        /\ last.completed = FALSE
        /\ last.calls = <<"UpdateItem">>
        /\ db = AsCompletedFalse.db
        /\ last.resp = AsCompletedFalse.resp
        /\ PreRowsWithID # {} =>
              /\ \A r \in RowsWithID(db, last.id) : ~r.Completed
              /\ RowsWithID(db, last.id) # {}
              /\ last.resp.key = "updated"
              /\ last.resp.flag

\* an update request with a completed parameter that does not parse, on a
\* row that was completed
C30_Witness ==
    /\ last.op = "endpoint.UpdateItem"
    /\ last.form.completed = "yes"
    /\ \E r \in PreRowsWithID : r.Completed
    /\ \E r \in RowsWithID(db, last.id) : ~r.Completed
    /\ last.resp.flag

====
